---- MODULE Spec2Model ----
(***************************************************************************)
(* The catalogo service (src/server.js): an Express application over one   *)
(* MongoDB collection, "productos", accessed through a Mongoose model.     *)
(*                                                                         *)
(* A JSON object (a request body, a stored document) is a function whose   *)
(* DOMAIN is the set of fields that are present.  The JSON null that the   *)
(* schema gives as a default is the value Null.  requiere_receta, a        *)
(* nullable Boolean, is written "true" / "false" / Null.  Dates are        *)
(* natural numbers read from the clock `now`.                              *)
(*                                                                         *)
(* Mongoose and MongoDB are modelled by what the calls of server.js do     *)
(* (Mongoose 6 or later: an update document without operators is wrapped   *)
(* in $set, and setDefaultsOnInsert is on for upserts).                    *)
(***************************************************************************)
EXTENDS Integers, Sequences, FiniteSets, TLC

\* ------------------------------------------------------------------ bounds
MaxClock == 2
MaxVariantes == 2
MaxCampos == 2
MaxLimit == 2
MaxParams == 3

\* const { limit = 50, skip = 0 } = req.query
DefaultLimit == 50
DefaultSkip == 0

Ids == {"P1", "P2"}
Clients == {"c1", "c2"}
Nombres == {"", "Paracetamol"}
OtrosNombres == {"Ibuprofeno"}
Barcodes == {"", "111", "222"}
CodigosAtc == {"N02BE01"}
Keywords == {"dolor", "fiebre"}
Null == "null"

VARIABLES
  productos,  \* the collection: a function from the _id values stored to documents
  now,        \* the clock that new Date() reads
  res,        \* the last HTTP response sent
  peticiones  \* the write requests of concurrent clients that are in flight or answered

vars == <<productos, now, res, peticiones>>

\* ------------------------------------------------------------------ JSON
Empty == [k \in {} |-> 0]

Opt(k, D) == {Empty} \cup { (k :> v) : v \in D }

Drop(f, K) == [k \in DOMAIN f \ K |-> f[k]]

\* ------------------------------------------------------------------ schemas
\* VarianteSchema: codigo_barras is the only path any index or handler reads.
Variante(b) == [codigo_barras |-> b]

SeqsUpTo(S, n) == UNION { [1..k -> S] : k \in 0..n }

\* The defaults of ProductoSchema; both dates default to the time of the call.
Defaults(t) ==
  [ codigo_atc |-> Null, requiere_receta |-> Null, habilitado |-> TRUE,
    keywords |-> <<>>, variantes |-> <<>>, creado_en |-> t, actualizado_en |-> t ]

\* new Producto(body): the body's fields, and the default of every path it omits.
Hydrate(body, t) == body @@ Defaults(t)

\* `required: true` of a String path rejects an absent value and the empty string.
Required(doc, k) == k \in DOMAIN doc /\ doc[k] # ""

VariantesValidas(vs) == \A i \in DOMAIN vs : Required(vs[i], "codigo_barras")

\* Document validation, run by save() before the user's pre("save") hook.
Validate(doc) ==
  /\ Required(doc, "_id")
  /\ Required(doc, "nombre")
  /\ VariantesValidas(doc.variantes)

\* Update validators (runValidators: true): only the paths the update sets.
ValidateUpdate(set) ==
  /\ "_id" \in DOMAIN set => set._id # ""
  /\ "nombre" \in DOMAIN set => set.nombre # ""
  /\ "variantes" \in DOMAIN set => VariantesValidas(set.variantes)

\* pre("save"): this.actualizado_en = new Date()
PreSave(doc, t) == [doc EXCEPT !.actualizado_en = t]

\* pre("findOneAndUpdate"): this.set({ actualizado_en: new Date() }); Query#set
\* deletes the key from the update and writes it under $set.
PreFindOneAndUpdate(update, t) == [actualizado_en |-> t] @@ update

\* ------------------------------------------------------------------ MongoDB
\* (mutant) the index without `sparse`: a document with no variant, and a
\* variant without the path, hold the key null.
IndexKeysNoSparse(doc) ==
  IF "variantes" \in DOMAIN doc /\ doc.variantes # <<>>
    THEN { IF "codigo_barras" \in DOMAIN doc.variantes[i]
             THEN doc.variantes[i].codigo_barras ELSE Null : i \in DOMAIN doc.variantes }
    ELSE {Null}

\* The keys of one document in the index { "variantes.codigo_barras": 1 }:
\* a multikey index holds one entry per distinct value in the array, and a
\* sparse index holds none for a document, or a variant, without the path.
\* The empty string is a value like any other.
IndexKeys(doc) ==
  IF "variantes" \in DOMAIN doc
    THEN { doc.variantes[i].codigo_barras :
             i \in { j \in DOMAIN doc.variantes : "codigo_barras" \in DOMAIN doc.variantes[j] } }
    ELSE {}

\* (mutant) the index is not multikey: only the first variant of a document is indexed.
DuplicateKeyFirst(db, id, doc) ==
  \E o \in DOMAIN db \ {id} :
    /\ doc.variantes # <<>>
    /\ doc.variantes[1].codigo_barras \in IndexKeys(db[o])

\* (mutant) the index without `unique`.
DuplicateKeyNever(db, id, doc) == FALSE

\* unique: true.  A key of `doc` is already the key of another document; the
\* entries of one document are never compared with each other.
DuplicateKey(db, id, doc) ==
  \E o \in DOMAIN db \ {id} : IndexKeys(db[o]) \cap IndexKeys(doc) # {}

\* The errors a call may throw, by the name and code the error handler reads;
\* keyValue names the index key of a duplicate.
NoError == [name |-> "", code |-> 0]
ValidationError == [name |-> "ValidationError", code |-> 0]
ImmutableField == [name |-> "MongoServerError", code |-> 66]
E11000(key) == [name |-> "MongoServerError", code |-> 11000, keyValue |-> key]

\* (mutant) an insert that replaces the document stored under the same _id.
InsertOneOverwrite(db, doc) ==
  IF DuplicateKey(db, doc._id, doc)
    THEN [err |-> E11000("variantes.codigo_barras"), db |-> db]
    ELSE [err |-> NoError, db |-> (doc._id :> doc) @@ db]

\* insertOne: E11000 on a duplicate _id or a duplicate key of the unique index.
InsertOne(db, doc) ==
  IF doc._id \in DOMAIN db
    THEN [err |-> E11000("_id"), db |-> db]
  ELSE IF DuplicateKey(db, doc._id, doc)
    THEN [err |-> E11000("variantes.codigo_barras"), db |-> db]
  ELSE [err |-> NoError, db |-> (doc._id :> doc) @@ db]

\* (mutant) the update document replaces the stored document (no $set).
FindOneAndReplace(db, id, set, onInsert, upsert) ==
  LET exists == id \in DOMAIN db
      new == set @@ onInsert @@ [_id |-> id]
  IN  IF ~exists /\ ~upsert
        THEN [err |-> NoError, found |-> FALSE, db |-> db, doc |-> Empty]
      ELSE IF DuplicateKey(db, id, new)
        THEN [err |-> E11000("variantes.codigo_barras"), found |-> FALSE,
              db |-> db, doc |-> Empty]
      ELSE [err |-> NoError, found |-> TRUE, db |-> (id :> new) @@ db, doc |-> new]

\* (mutant) a store that writes the document before it checks the unique index.
FindOneAndUpdateThenCheck(db, id, set, onInsert, upsert) ==
  LET exists == id \in DOMAIN db
      new == IF exists THEN set @@ db[id]
                       ELSE set @@ onInsert @@ [_id |-> id]
  IN  IF ~exists /\ ~upsert
        THEN [err |-> NoError, found |-> FALSE, db |-> db, doc |-> Empty]
      ELSE IF "_id" \in DOMAIN set /\ set._id # id
        THEN [err |-> ImmutableField, found |-> FALSE, db |-> db, doc |-> Empty]
      ELSE IF DuplicateKey(db, id, new)
        THEN [err |-> E11000("variantes.codigo_barras"), found |-> FALSE,
              db |-> (id :> new) @@ db, doc |-> Empty]
      ELSE [err |-> NoError, found |-> TRUE, db |-> (id :> new) @@ db, doc |-> new]

\* (mutant) a store that lets $set change _id: the document moves to the new key.
FindOneAndUpdateSetId(db, id, set, onInsert, upsert) ==
  LET exists == id \in DOMAIN db
      new == IF exists THEN set @@ db[id]
                       ELSE set @@ onInsert @@ [_id |-> id]
  IN  IF ~exists /\ ~upsert
        THEN [err |-> NoError, found |-> FALSE, db |-> db, doc |-> Empty]
      ELSE IF DuplicateKey(db, id, new)
        THEN [err |-> E11000("variantes.codigo_barras"), found |-> FALSE,
              db |-> db, doc |-> Empty]
      ELSE [err |-> NoError, found |-> TRUE,
            db |-> (new._id :> new) @@ Drop(db, {id}), doc |-> new]

\* findOneAndUpdate({_id: id}, {$set: set, $setOnInsert: onInsert}, {new: true, upsert}):
\* one atomic step on one document.  `found` is FALSE when the call returns null.
FindOneAndUpdate(db, id, set, onInsert, upsert) ==
  LET exists == id \in DOMAIN db
      new == IF exists THEN set @@ db[id]
                       ELSE set @@ onInsert @@ [_id |-> id]
  IN  IF ~exists /\ ~upsert
        THEN [err |-> NoError, found |-> FALSE, db |-> db, doc |-> Empty]
      ELSE IF "_id" \in DOMAIN set /\ set._id # id
        THEN [err |-> ImmutableField, found |-> FALSE, db |-> db, doc |-> Empty]
      ELSE IF DuplicateKey(db, id, new)
        THEN [err |-> E11000("variantes.codigo_barras"), found |-> FALSE,
              db |-> db, doc |-> Empty]
      ELSE [err |-> NoError, found |-> TRUE, db |-> (id :> new) @@ db, doc |-> new]

\* ------------------------------------------------------------------ responses
NoExiste == [detail |-> "No existe"]

\* (mutant) an error handler without the branch for duplicates.
ErrorHandlerOnly500(err, db) ==
  [status |-> 500, body |-> [detail |-> "Error interno"], db |-> db]

\* The error handler: 409 for MongoServerError 11000, 500 for everything else.
ErrorHandler(err, db) ==
  IF err.name = "MongoServerError" /\ err.code = 11000
    THEN [status |-> 409, body |-> [detail |-> "Duplicado", dupKey |-> err.keyValue],
          db |-> db]
    ELSE [status |-> 500, body |-> [detail |-> "Error interno"], db |-> db]

\* ------------------------------------------------------------------ handlers
\* Each handler is a function of the collection, the request and the two
\* readings of the clock it makes (t1 <= t2); it gives the response and the
\* collection afterwards.

\* POST /productos: Producto.create(req.body)
PostProductos(db, body, t1, t2) ==
  LET doc == Hydrate(body, t1)
  IN  IF ~Validate(doc) THEN ErrorHandler(ValidationError, db)
      ELSE LET saved == PreSave(doc, t2)
               r == InsertOne(db, saved)
           IN  IF r.err = NoError
                 THEN [status |-> 201, body |-> saved, db |-> r.db]
                 ELSE ErrorHandler(r.err, r.db)

\* GET /productos/:id
GetProducto(db, id) ==
  IF id \in DOMAIN db
    THEN [status |-> 200, body |-> db[id], db |-> db]
    ELSE [status |-> 404, body |-> NoExiste, db |-> db]

\* PUT /productos/:id: the hook reads the clock first (t1); the defaults of an
\* upsert are computed afterwards (t2), for the paths the update does not set.
PutProducto(db, id, body, t1, t2) ==
  LET set == PreFindOneAndUpdate(body, t1)
      onInsert == Drop(Defaults(t2), DOMAIN set)
      r == FindOneAndUpdate(db, id, set, onInsert, TRUE)
  IN  IF r.err = NoError
        THEN [status |-> 200, body |-> r.doc, db |-> r.db]
        ELSE ErrorHandler(r.err, r.db)

\* PATCH /productos/:id
PatchProducto(db, id, body, t1) ==
  LET set == PreFindOneAndUpdate(body, t1)
  IN  IF ~ValidateUpdate(set) THEN ErrorHandler(ValidationError, db)
      ELSE LET r == FindOneAndUpdate(db, id, set, Empty, FALSE)
           IN  IF r.err # NoError THEN ErrorHandler(r.err, r.db)
               ELSE IF ~r.found THEN [status |-> 404, body |-> NoExiste, db |-> r.db]
               ELSE [status |-> 200, body |-> r.doc, db |-> r.db]

\* (mutant) findById in the place of findByIdAndDelete.
DeleteWithoutRemoving(db, id) ==
  IF id \in DOMAIN db
    THEN [status |-> 204, body |-> Empty, db |-> db]
    ELSE [status |-> 404, body |-> NoExiste, db |-> db]

\* DELETE /productos/:id
DeleteProducto(db, id) ==
  IF id \in DOMAIN db
    THEN [status |-> 204, body |-> Empty, db |-> Drop(db, {id})]
    ELSE [status |-> 404, body |-> NoExiste, db |-> db]

\* findOne({ "variantes.codigo_barras": ean }): the documents it may return.
FindOneByBarcode(db, ean) ==
  { db[id] : id \in { i \in DOMAIN db : ean \in IndexKeys(db[i]) } }

\* GET /productos/codigos-barras/:ean: the responses it may give.
GetPorCodigoBarras(db, ean) ==
  IF FindOneByBarcode(db, ean) = {}
    THEN { [status |-> 404, body |-> NoExiste, db |-> db] }
    ELSE { [status |-> 200, body |-> d, db |-> db] : d \in FindOneByBarcode(db, ean) }

\* Number(s) of a decimal string of the query.
Cifras == <<"1", "2", "3", "4">>

Number(s) == IF s = "0" THEN 0 ELSE CHOOSE n \in DOMAIN Cifras : Cifras[n] = s

\* $text: { $search: texto } on the text index of nombre and keywords, for a
\* term of one token.
TextMatch(doc, texto) ==
  \/ "nombre" \in DOMAIN doc /\ doc.nombre = texto
  \/ \E i \in DOMAIN doc.keywords : doc.keywords[i] = texto

\* (mutant) the flag is taken for true whenever the parameter has a value.
FiltroTruthy(query) ==
  (IF "texto" \in DOMAIN query /\ query.texto # "" THEN [text |-> query.texto] ELSE Empty)
  @@ (IF "atc" \in DOMAIN query /\ query.atc # "" THEN [codigo_atc |-> query.atc] ELSE Empty)
  @@ (IF "rx" \in DOMAIN query THEN [requiere_receta |-> "true"] ELSE Empty)
  @@ (IF "habilitado" \in DOMAIN query THEN [habilitado |-> TRUE] ELSE Empty)

\* The filter q that GET /productos builds from req.query: texto and atc
\* count when they are truthy, rx and habilitado when they are defined.
Filtro(query) ==
  (IF "texto" \in DOMAIN query /\ query.texto # "" THEN [text |-> query.texto] ELSE Empty)
  @@ (IF "atc" \in DOMAIN query /\ query.atc # "" THEN [codigo_atc |-> query.atc] ELSE Empty)
  @@ (IF "rx" \in DOMAIN query
        THEN [requiere_receta |-> IF query.rx = "true" THEN "true" ELSE "false"] ELSE Empty)
  @@ (IF "habilitado" \in DOMAIN query
        THEN [habilitado |-> (query.habilitado = "true")] ELSE Empty)

\* The documents that filter q matches.
Find(db, q) ==
  { id \in DOMAIN db :
      \A k \in DOMAIN q :
        IF k = "text" THEN TextMatch(db[id], q[k])
                      ELSE k \in DOMAIN db[id] /\ db[id][k] = q[k] }

\* The orders in which the store may return a set of documents.
Ordenes(S) ==
  { o \in [1..Cardinality(S) -> S] : \A i, j \in DOMAIN o : o[i] = o[j] => i = j }

\* (mutant) a limit of 0 returns nothing.
LimitSkipBounded(o, limit, skip) ==
  LET rest == SubSeq(o, skip + 1, Len(o))
  IN  IF limit < Len(rest) THEN SubSeq(rest, 1, limit) ELSE rest

\* cursor.limit(limit).skip(skip): MongoDB skips first, then limits; a limit
\* of 0 is no limit.
LimitSkip(o, limit, skip) ==
  LET rest == SubSeq(o, skip + 1, Len(o))
  IN  IF limit # 0 /\ limit < Len(rest) THEN SubSeq(rest, 1, limit) ELSE rest

\* GET /productos: the responses it may give, one for each order of the store.
GetProductos(db, query) ==
  LET limit == IF "limit" \in DOMAIN query THEN Number(query.limit) ELSE DefaultLimit
      skip == IF "skip" \in DOMAIN query THEN Number(query.skip) ELSE DefaultSkip
  IN  { [status |-> 200,
         body |-> [i \in DOMAIN LimitSkip(o, limit, skip) |-> db[LimitSkip(o, limit, skip)[i]]],
         db |-> db] : o \in Ordenes(Find(db, Filtro(query))) }

\* The handler of a write request.
Handle(op, db, id, body, t1, t2) ==
  CASE op = "POST" -> PostProductos(db, body, t1, t2)
    [] op = "PUT" -> PutProducto(db, id, body, t1, t2)
    [] op = "PATCH" -> PatchProducto(db, id, body, t1)

\* ------------------------------------------------------------------ requests
Presentes(bs) == { Variante(b) : b \in bs }

\* Bodies of POST /productos that vary in identity, name and variants; an
\* empty name and an empty barcode are what document validation rejects.
PostCatalogo ==
  { a @@ b @@ c : a \in Opt("_id", Ids), b \in Opt("nombre", Nombres),
                  c \in Opt("variantes", SeqsUpTo(Presentes(Barcodes), MaxVariantes)) }

\* Bodies of PUT and PATCH that vary in name and variants.
UpdateCatalogo ==
  { b @@ c : b \in Opt("nombre", Nombres \ {""}),
             c \in Opt("variantes", SeqsUpTo(Presentes(Barcodes \ {""}), MaxVariantes)) }

\* The dates a client writes in a body: one in the past, one in the future.
FechasCliente == {0, MaxClock + 1}

\* Bodies of POST /productos that vary in the dates they carry.
PostFechas ==
  { [_id |-> id, nombre |-> "Paracetamol"] @@ c @@ u :
      id \in Ids, c \in Opt("creado_en", FechasCliente), u \in Opt("actualizado_en", FechasCliente) }

\* Bodies of PUT and PATCH that vary in the dates they carry.
UpdateFechas ==
  { c @@ u : c \in Opt("creado_en", FechasCliente),
             u \in Opt("actualizado_en", FechasCliente) }

\* Bodies of PUT and PATCH with at most MaxCampos fields, of any path of the schema.
UpdateCampos ==
  { body \in
      { a @@ b @@ c @@ d @@ e @@ f @@ g @@ h :
          a \in Opt("nombre", Nombres \cup OtrosNombres),
          b \in Opt("codigo_atc", CodigosAtc),
          c \in Opt("requiere_receta", {"true", "false"}),
          d \in Opt("habilitado", BOOLEAN),
          e \in Opt("keywords", { <<k>> : k \in Keywords }),
          f \in Opt("variantes", { <<Variante(x)>> : x \in Barcodes \ {""} }),
          g \in Opt("creado_en", {MaxClock + 1}),
          h \in Opt("actualizado_en", {MaxClock + 1}) } :
      Cardinality(DOMAIN body) <= MaxCampos }

\* The variants a careless client writes: without a barcode, with an empty
\* barcode, with a barcode.
VariantesVacias == { Empty, Variante(""), Variante("111") }

\* Bodies of POST /productos that vary in such variants.
PostVacios ==
  { [_id |-> id, nombre |-> "Paracetamol"] @@ c :
      id \in Ids, c \in Opt("variantes", SeqsUpTo(VariantesVacias, MaxVariantes)) }

\* Bodies of PUT and PATCH that vary in such variants.
UpdateVacios ==
  { [nombre |-> "Paracetamol"] @@ c :
      c \in Opt("variantes", SeqsUpTo(VariantesVacias, MaxVariantes)) }

\* The decimal strings of the numbers up to MaxLimit.
Numeros == {"0"} \cup { Cifras[n] : n \in 1..MaxLimit }

\* The query strings of GET /productos, of at most MaxParams parameters.
Queries ==
  { query \in
      { a @@ b @@ c @@ d @@ e @@ f :
          a \in Opt("texto", {"", "dolor"}), b \in Opt("atc", {""} \cup CodigosAtc),
          c \in Opt("rx", {"true", "false"}), d \in Opt("habilitado", {"true", "false"}),
          e \in Opt("limit", Numeros), f \in Opt("skip", Numeros) } :
      Cardinality(DOMAIN query) <= MaxParams }

\* Bodies of POST /productos that vary in the fields a search filters on.
PostBusqueda ==
  { [_id |-> id, nombre |-> "Paracetamol"] @@ a @@ b @@ c @@ d :
      id \in Ids, a \in Opt("codigo_atc", CodigosAtc),
      b \in Opt("requiere_receta", {"true", "false"}),
      c \in Opt("habilitado", {FALSE}), d \in Opt("keywords", {<<"dolor">>}) }

\* Bodies of PUT and PATCH that carry an id of their own.
UpdateIds ==
  { a @@ b : a \in Opt("_id", Ids), b \in Opt("nombre", {"Paracetamol"} \cup OtrosNombres) }

\* Bodies of POST /productos, valid and invalid, with and without a barcode.
PostFallos ==
  { [_id |-> id, nombre |-> n] @@ c :
      id \in Ids, n \in Nombres, c \in Opt("variantes", { <<Variante("111")>> }) }

\* Bodies of PUT and PATCH, valid and invalid, with and without a barcode.
UpdateFallos ==
  { b @@ c : b \in Opt("nombre", Nombres), c \in Opt("variantes", { <<Variante("111")>> }) }

Respond(op, id, r) ==
  /\ productos' = r.db
  /\ res' = [op |-> op, id |-> id, status |-> r.status, body |-> r.body]

\* ------------------------------------------------------------------ actions
\* A handler called with bodies of B; the clock advances by some d of D
\* between the handler's two readings of it.
Post(B, D) ==
  \E body \in B, d \in D :
    /\ now + d <= MaxClock
    /\ now' = now + d
    /\ Respond("POST", IF "_id" \in DOMAIN body THEN body._id ELSE "",
               PostProductos(productos, body, now, now + d))
    /\ UNCHANGED peticiones

Get(I) ==
  \E id \in I :
    /\ Respond("GET", id, GetProducto(productos, id))
    /\ UNCHANGED <<now, peticiones>>

Put(I, B, D) ==
  \E id \in I, body \in B, d \in D :
    /\ now + d <= MaxClock
    /\ now' = now + d
    /\ Respond("PUT", id, PutProducto(productos, id, body, now, now + d))
    /\ UNCHANGED peticiones

Patch(I, B) ==
  \E id \in I, body \in B :
    /\ Respond("PATCH", id, PatchProducto(productos, id, body, now))
    /\ UNCHANGED <<now, peticiones>>

Delete(I) ==
  \E id \in I :
    /\ Respond("DELETE", id, DeleteProducto(productos, id))
    /\ UNCHANGED <<now, peticiones>>

GetBarcode ==
  \E ean \in Barcodes \ {""} : \E r \in GetPorCodigoBarras(productos, ean) :
    /\ Respond("GET-EAN", ean, r)
    /\ UNCHANGED <<now, peticiones>>

Search ==
  \E query \in Queries : \E r \in GetProductos(productos, query) :
    /\ Respond("SEARCH", "", r)
    /\ UNCHANGED <<now, peticiones>>

Tick ==
  /\ now < MaxClock
  /\ now' = now + 1
  /\ UNCHANGED <<productos, res, peticiones>>

SinRespuesta == [op |-> "", id |-> "", status |-> 0, body |-> Empty]

Init ==
  /\ productos = Empty
  /\ now = 0
  /\ res = SinRespuesta
  /\ peticiones = Empty

\* Requests on the identity, name and variants of two products, all answered
\* within one reading of the clock.
Next ==
  \/ Post(PostCatalogo, {0})
  \/ Get(Ids)
  \/ Put(Ids, UpdateCatalogo, {0})
  \/ Patch(Ids, UpdateCatalogo)
  \/ Delete(Ids)
  \/ GetBarcode

Spec == Init /\ [][Next]_vars

\* Concurrent requests.  A handler runs up to its await of the one MongoDB call
\* it makes, having read the clock (Send); MongoDB then executes the calls in
\* flight in any order, each atomically on one document, and the handler
\* answers (Execute).  An upsert that matches no document is the exception: it
\* matches (Buscar) and inserts (Execute) in two steps, and another insert of
\* the same _id may come between them.  `antes` is the collection when the
\* request was sent.
BodiesConcurrentes ==
  { [nombre |-> "Paracetamol", variantes |-> vs] :
      vs \in SeqsUpTo(Presentes(Barcodes \ {""}), MaxVariantes) }

Send(c) ==
  \E op \in {"POST", "PUT", "PATCH"}, id \in Ids, b \in BodiesConcurrentes :
    /\ c \notin DOMAIN peticiones
    /\ peticiones' =
         (c :> [op |-> op, id |-> id,
                body |-> IF op = "POST" THEN [_id |-> id] @@ b ELSE b,
                t1 |-> now, t2 |-> now, pc |-> "sent", status |-> 0,
                antes |-> productos]) @@ peticiones
    /\ UNCHANGED <<productos, now, res>>

\* The query of an upsert has matched no document; the insert is still to come.
Buscar(c) ==
  /\ c \in DOMAIN peticiones
  /\ peticiones[c].pc = "sent"
  /\ peticiones[c].op = "PUT"
  /\ peticiones[c].id \notin DOMAIN productos
  /\ peticiones' = [peticiones EXCEPT ![c].pc = "insert"]
  /\ UNCHANGED <<productos, now, res>>

\* The responses of a handler whose MongoDB call executes now.  When the insert
\* of an upsert finds the _id taken since its query, the server either runs
\* the call again as an update (MongoDB 4.2 and later) or fails it with E11000.
Responses(p, db) ==
  { Handle(p.op, db, p.id, p.body, p.t1, p.t2) }
    \cup IF p.pc = "insert" /\ p.id \in DOMAIN db
           THEN { ErrorHandler(E11000("_id"), db) }
           ELSE {}

Execute(c) ==
  /\ c \in DOMAIN peticiones
  /\ peticiones[c].pc \in {"sent", "insert"}
  /\ \E r \in Responses(peticiones[c], productos) :
       /\ Respond(peticiones[c].op, peticiones[c].id, r)
       /\ peticiones' = [peticiones EXCEPT ![c].pc = "done", ![c].status = r.status]
  /\ UNCHANGED now

\* The catalogs the concurrent requests start from: any of the products,
\* created earlier with at most one variant each, no barcode on two of them.
CatalogosIniciales ==
  { db \in { [id \in DOMAIN vs |->
                Hydrate([_id |-> id, nombre |-> "Paracetamol", variantes |-> vs[id]], 0)] :
              vs \in UNION { [I -> SeqsUpTo(Presentes(Barcodes \ {""}), 1)] :
                             I \in SUBSET Ids } } :
      \A id \in DOMAIN db : ~DuplicateKey(db, id, db[id]) }

InitConcurrente ==
  /\ productos \in CatalogosIniciales
  /\ now = 0
  /\ res = SinRespuesta
  /\ peticiones = Empty

NextConcurrente ==
  \/ \E c \in Clients : Send(c)
  \/ \E c \in Clients : Buscar(c)
  \/ \E c \in Clients : Execute(c)

SpecConcurrente == InitConcurrente /\ [][NextConcurrente]_vars

\* Requests whose bodies carry dates, under a clock that
\* advances between requests and between the two readings of one handler.
NextFechas ==
  \/ Post(PostFechas, {0, 1})
  \/ Get(Ids)
  \/ Put(Ids, UpdateFechas, {0, 1})
  \/ Patch(Ids, UpdateFechas)
  \/ Delete(Ids)
  \/ Tick

SpecFechas == Init /\ [][NextFechas]_vars

\* Requests on one product whose bodies carry any fields of the schema, all
\* answered within one reading of the clock.
NextCampos ==
  \/ Post({[_id |-> "P1", nombre |-> "Paracetamol"]}, {0})
  \/ Get({"P1"})
  \/ Put({"P1"}, UpdateCampos, {0})
  \/ Patch({"P1"}, UpdateCampos)
  \/ Delete({"P1"})

SpecCampos == Init /\ [][NextCampos]_vars

\* Requests whose variants may lack a barcode or carry an empty one, all
\* answered within one reading of the clock.
NextVacios ==
  \/ Post(PostVacios, {0})
  \/ Get(Ids)
  \/ Put(Ids, UpdateVacios, {0})
  \/ Patch(Ids, UpdateVacios)
  \/ Delete(Ids)

SpecVacios == Init /\ [][NextVacios]_vars

\* Requests whose bodies carry an id, the path's or another, all answered
\* within one reading of the clock.
NextIds ==
  \/ Post({ [_id |-> id, nombre |-> "Paracetamol"] : id \in Ids }, {0})
  \/ Get(Ids)
  \/ Put(Ids, UpdateIds, {0})
  \/ Patch(Ids, UpdateIds)
  \/ Delete(Ids)

SpecIds == Init /\ [][NextIds]_vars

\* Requests that fail in every way the service can fail, under a clock that
\* advances between requests.
NextFallos ==
  \/ Post(PostFallos, {0})
  \/ Get(Ids)
  \/ Put(Ids, UpdateFallos, {0})
  \/ Patch(Ids, UpdateFallos)
  \/ Delete(Ids)
  \/ GetBarcode
  \/ Tick

SpecFallos == Init /\ [][NextFallos]_vars

\* Searches over a catalog of products that differ in the fields a search
\* filters on.
NextBusqueda ==
  \/ Post(PostBusqueda, {0})
  \/ Search
  \/ Delete(Ids)

SpecBusqueda == Init /\ [][NextBusqueda]_vars

\* ------------------------------------------------------------------ claims
VariantesDe(body) == IF "variantes" \in DOMAIN body THEN body.variantes ELSE <<>>

BarcodesDe(body) ==
  { VariantesDe(body)[i].codigo_barras :
      i \in { j \in DOMAIN VariantesDe(body) : "codigo_barras" \in DOMAIN VariantesDe(body)[j] } }

\* The barcodes on the stored variants.
Almacenados(db) == UNION { BarcodesDe(db[o]) : o \in DOMAIN db }

\* The variants of the catalog that carry barcode b: <<product, position>>.
Ocurrencias(db, b) ==
  UNION { { <<o, i>> : i \in { j \in DOMAIN db[o].variantes :
                                  db[o].variantes[j].codigo_barras = b } } :
          o \in DOMAIN db }

\* The products with a variant that carries barcode b.
Portadores(db, b) == { o \in DOMAIN db : b \in BarcodesDe(db[o]) }

\* A body that document validation accepts: an id, a non-empty name, and a
\* non-empty barcode on every variant.
ProductoValido(body) ==
  /\ Required(body, "_id")
  /\ Required(body, "nombre")
  /\ VariantesValidas(VariantesDe(body))

\* C1: in every reachable state no non-empty barcode is on more than one
\* variant of the catalog, two variants of one product included.
C1_BarcodeOnOneVariant ==
  \A b \in Barcodes \ {""} : Cardinality(Ocurrencias(productos, b)) <= 1

C7_FindByBarcode ==
  \A b \in Barcodes \ {""} :
    /\ Cardinality(Portadores(productos, b)) <= 1
    /\ Cardinality(Ocurrencias(productos, b)) = 1
         => \E o \in DOMAIN productos :
              /\ b \in BarcodesDe(productos[o])
              /\ GetPorCodigoBarras(productos, b)
                   = { [status |-> 200, body |-> productos[o], db |-> productos] }
    /\ Ocurrencias(productos, b) = {}
         => GetPorCodigoBarras(productos, b)
              = { [status |-> 404, body |-> NoExiste, db |-> productos] }

\* A lookup by barcode returned a product while two products were stored.
C7_Witness ==
  /\ res.op = "GET-EAN" /\ res.status = 200
  /\ Cardinality(DOMAIN productos) = 2
  /\ Cardinality(Ocurrencias(productos, res.id)) = 1

\* C8: Delete of a stored id answers 204, after which GetByID and a second
\* Delete of that id answer 404; Delete of an id that is not stored answers
\* 404 and removes nothing; right after a Delete answered 204 the id is gone.
C8_DeleteThenNotFound ==
  /\ \A id \in Ids :
       LET r == DeleteProducto(productos, id)
       IN  IF id \in DOMAIN productos
             THEN /\ r.status = 204
                  /\ GetProducto(r.db, id).status = 404
                  /\ DeleteProducto(r.db, id).status = 404
                  /\ DeleteProducto(r.db, id).db = r.db
             ELSE r.status = 404 /\ r.db = productos
  /\ (res.op = "DELETE" /\ res.status = 204) => res.id \notin DOMAIN productos

\* A Delete was answered 204 and the other product is still stored.
C8_Witness ==
  /\ res.op = "DELETE" /\ res.status = 204
  /\ res.id \notin DOMAIN productos
  /\ productos # Empty

\* C5: a Replace that is answered 200 leaves a record under its id; when the
\* id was stored before, the record's creado_en is what it was and its
\* actualizado_en is not earlier than it was, whatever the body carries.
C5_ReplaceKeepsCreatedAt ==
  [][ (res'.op = "PUT" /\ res'.status = 200)
      => /\ res'.id \in DOMAIN productos'
         /\ res'.id \in DOMAIN productos
              => /\ productos'[res'.id].creado_en = productos[res'.id].creado_en
                 /\ productos'[res'.id].actualizado_en >= productos[res'.id].actualizado_en
    ]_vars

\* C6 as stated: PartialUpdate of an id that is not stored (with a payload
\* that passes validation) answers 404 and stores nothing; after a
\* PartialUpdate of a stored id that is answered 200 every field of the payload
\* holds the payload's value and every other field except actualizado_en holds
\* its previous value (arrays are replaced wholesale).
C6_PartialUpdateFrame ==
  \A id \in Ids, body \in UpdateCampos :
    LET r == PatchProducto(productos, id, body, now)
    IN  /\ (id \notin DOMAIN productos /\ ValidateUpdate(body))
             => (r.status = 404 /\ r.db = productos)
        /\ (id \in DOMAIN productos /\ r.status = 200)
             => /\ \A k \in DOMAIN body : r.db[id][k] = body[k]
                /\ \A k \in DOMAIN productos[id] \ (DOMAIN body \cup {"actualizado_en"}) :
                     k \in DOMAIN r.db[id] /\ r.db[id][k] = productos[id][k]

\* C6 amended: PartialUpdate of an id that is not stored, with a payload that
\* passes validation, answers 404 and stores nothing; after a PartialUpdate of
\* a stored id that is answered 200, every field of the payload other than
\* actualizado_en holds the payload's value, actualizado_en holds the time of
\* the call, every other field holds its previous value, and no field appears
\* that was neither stored nor in the payload.
C6_PartialUpdateFrameButUpdatedAt ==
  \A id \in Ids, body \in UpdateCampos :
    LET r == PatchProducto(productos, id, body, now)
    IN  /\ (id \notin DOMAIN productos /\ ValidateUpdate(body))
             => (r.status = 404 /\ r.db = productos)
        /\ (id \in DOMAIN productos /\ r.status = 200)
             => /\ \A k \in DOMAIN body \ {"actualizado_en"} : r.db[id][k] = body[k]
                /\ r.db[id].actualizado_en = now
                /\ \A k \in DOMAIN productos[id] \ (DOMAIN body \cup {"actualizado_en"}) :
                     k \in DOMAIN r.db[id] /\ r.db[id][k] = productos[id][k]
                /\ DOMAIN r.db[id] = DOMAIN productos[id] \cup DOMAIN body
                /\ Drop(r.db, {id}) = Drop(productos, {id})

\* A PartialUpdate was answered 200: it replaced the keywords of a record and
\* left the record's name, variants and habilitado as they were stored.
C6_Witness ==
  /\ res.op = "PATCH" /\ res.status = 200
  /\ res.body.keywords = <<"fiebre">>
  /\ "nombre" \in DOMAIN res.body /\ res.body.nombre = "Ibuprofeno"
  /\ res.body.variantes = <<Variante("111")>>
  /\ res.body.habilitado = FALSE
  /\ productos[res.id] = res.body

\* C9: in every reachable state every stored product has
\* actualizado_en >= creado_en.
C9_UpdatedNotBeforeCreated ==
  \A id \in DOMAIN productos : productos[id].actualizado_en >= productos[id].creado_en

\* The barcodes a request introduces: on its body and on no stored variant
\* when it was sent.
Introduce(p) == (BarcodesDe(p.body) \ {""}) \ Almacenados(p.antes)

\* The request would have been applied had it been the only one.
Solo(p) == Handle(p.op, p.antes, p.id, p.body, p.t1, p.t2).status \in {200, 201}

Aplicada(p) == p.status \in {200, 201}

\* C10: when two clients have written to different ids, each write
\* introducing the same barcode that was on no stored variant (and each one
\* acceptable alone), then whatever the order MongoDB executed them in, one was
\* applied, the other was answered 409, and exactly one product carries the barcode.
C10_ConcurrentSameBarcode ==
  \A c \in DOMAIN peticiones, d \in DOMAIN peticiones :
    LET p == peticiones[c]
        q == peticiones[d]
    IN  ( /\ c # d /\ p.id # q.id
          /\ p.pc = "done" /\ q.pc = "done"
          /\ Solo(p) /\ Solo(q)
          /\ Introduce(p) \cap Introduce(q) # {} )
        => /\ Aplicada(p) # Aplicada(q)
           /\ Aplicada(p) \/ p.status = 409
           /\ Aplicada(q) \/ q.status = 409
           /\ \A b \in Introduce(p) \cap Introduce(q) :
                Cardinality(Portadores(productos, b)) = 1

\* Both requests were in flight together: a PartialUpdate and a Create that
\* introduce barcode 111; the Create was applied and the PartialUpdate answered 409.
C10_Witness ==
  /\ DOMAIN peticiones = Clients
  /\ peticiones["c1"].op = "PATCH" /\ peticiones["c2"].op = "POST"
  /\ peticiones["c1"].antes = peticiones["c2"].antes
  /\ "111" \in Introduce(peticiones["c1"]) \cap Introduce(peticiones["c2"])
  /\ peticiones["c1"].status = 409 /\ peticiones["c2"].status = 201
  /\ Portadores(productos, "111") = {peticiones["c2"].id}

\* The response a request gets from catalog db, and the catalog afterwards.
Secuencial(p, db) == Handle(p.op, db, p.id, p.body, p.t1, p.t2)

\* Requests p and q, both answered, got the statuses and left the catalog
\* that running them one after the other from catalog db gives, in either order.
ComoEnSerie(p, q, db) ==
  LET rp == Secuencial(p, db)
      rq == Secuencial(q, db)
      rpq == Secuencial(q, rp.db)
      rqp == Secuencial(p, rq.db)
  IN  /\ p.status = rp.status /\ p.status = rqp.status
      /\ q.status = rq.status /\ q.status = rpq.status
      /\ productos = rpq.db /\ productos = rqp.db

\* The barcodes stored on the record a request targets.
EnDestino(p) == IF p.id \in DOMAIN p.antes THEN BarcodesDe(p.antes[p.id]) ELSE {}

\* C11 as stated: two writes sent against the same catalog, on distinct ids
\* and with barcode sets that do not collide, get in every interleaving the
\* results, and leave the catalog, that running them one after the other in
\* either order gives.
C11_DistinctIdsCommute ==
  \A c \in DOMAIN peticiones, d \in DOMAIN peticiones :
    LET p == peticiones[c]
        q == peticiones[d]
    IN  ( /\ c # d /\ p.id # q.id
          /\ p.pc = "done" /\ q.pc = "done"
          /\ p.antes = q.antes
          /\ BarcodesDe(p.body) \cap BarcodesDe(q.body) = {} )
        => ComoEnSerie(p, q, p.antes)

\* C11 amended: the same, for two writes whose barcode sets collide neither
\* with each other nor with a barcode stored on the record the other write
\* targets.
C11_DistinctIdsCommuteApart ==
  \A c \in DOMAIN peticiones, d \in DOMAIN peticiones :
    LET p == peticiones[c]
        q == peticiones[d]
    IN  ( /\ c # d /\ p.id # q.id
          /\ p.pc = "done" /\ q.pc = "done"
          /\ p.antes = q.antes
          /\ BarcodesDe(p.body) \cap BarcodesDe(q.body) = {}
          /\ BarcodesDe(p.body) \cap EnDestino(q) = {}
          /\ BarcodesDe(q.body) \cap EnDestino(p) = {} )
        => ComoEnSerie(p, q, p.antes)

\* Two writes were in flight together, a Replace that upserts P1 with barcode
\* 111 and a PartialUpdate that gives P2 barcode 222; both were applied.
C11_Witness ==
  /\ DOMAIN peticiones = Clients
  /\ peticiones["c1"].op = "PUT" /\ peticiones["c1"].id = "P1"
  /\ peticiones["c2"].op = "PATCH" /\ peticiones["c2"].id = "P2"
  /\ peticiones["c1"].antes = peticiones["c2"].antes
  /\ "P1" \notin DOMAIN peticiones["c1"].antes
  /\ peticiones["c1"].status = 200 /\ peticiones["c2"].status = 200
  /\ BarcodesDe(productos["P1"]) = {"111"}
  /\ BarcodesDe(productos["P2"]) = {"222"}

\* C12: every Create of a body without an id or without a non-empty name is
\* answered 400, and leaves the catalog as it was.
C12_CreateInvalidIs400 ==
  [][ \A body \in PostCatalogo :
        LET r == PostProductos(productos, body, now, now)
        IN  ( /\ ~Required(body, "_id") \/ ~Required(body, "nombre")
              /\ res'.op = "POST" /\ res'.status = r.status /\ res'.body = r.body
              /\ productos' = r.db )
            => (res'.status = 400 /\ productos' = productos)
    ]_vars

\* The paths of a product that a client may change, and the ones with a default.
Mutables == {"nombre", "codigo_atc", "requiere_receta", "habilitado", "keywords", "variantes"}

\* C13: after every Replace of a stored id that is answered 200, with a body
\* of mutable fields, each mutable field of the record holds the body's value,
\* or its default when the body omits it, and the record's id and creado_en
\* are what they were.
C13_ReplaceOverwritesAll ==
  [][ \A body \in UpdateCampos :
        LET r == PutProducto(productos, "P1", body, now, now)
        IN  ( /\ "P1" \in DOMAIN productos /\ DOMAIN body \subseteq Mutables
              /\ res'.op = "PUT" /\ res'.status = 200 /\ r.status = 200
              /\ res'.body = r.body /\ productos' = r.db )
            => /\ \A k \in Mutables \cap DOMAIN body : productos'["P1"][k] = body[k]
               /\ \A k \in (Mutables \ {"nombre"}) \ DOMAIN body :
                    productos'["P1"][k] = Defaults(now)[k]
               /\ productos'["P1"]._id = "P1"
               /\ productos'["P1"].creado_en = productos["P1"].creado_en
    ]_vars

\* A non-empty barcode of the body is on a variant of a product other than id.
Colisiona(db, id, body) ==
  \E o \in DOMAIN db \ {id} : (BarcodesDe(body) \ {""}) \cap BarcodesDe(db[o]) # {}

\* Step of a handler: response r was sent for op on id and the catalog is r.db.
Respondido(op, id, r) ==
  /\ res' = [op |-> op, id |-> id, status |-> r.status, body |-> r.body]
  /\ productos' = r.db

\* C14: every Replace on id X, and every PartialUpdate on a stored id X with a
\* payload that passes validation, is answered 409 exactly when a non-empty
\* barcode of the written variants is on a variant of a product other than X,
\* and is answered 200 otherwise (so also when it re-supplies barcodes of X).
C14_ConflictExactlyOnOtherProduct ==
  [][ \A id \in Ids, body \in UpdateVacios :
        LET put == PutProducto(productos, id, body, now, now)
            patch == PatchProducto(productos, id, body, now)
        IN  /\ Respondido("PUT", id, put)
                 => /\ put.status = 409 <=> Colisiona(productos, id, body)
                    /\ put.status \in {200, 409}
            /\ ( /\ Respondido("PATCH", id, patch)
                 /\ id \in DOMAIN productos /\ ValidateUpdate(body) )
                 => /\ patch.status = 409 <=> Colisiona(productos, id, body)
                    /\ patch.status \in {200, 409}
    ]_vars

\* The limit and the offset a query asks for.
LimitDe(query) == IF "limit" \in DOMAIN query THEN Number(query.limit) ELSE DefaultLimit

SkipDe(query) == IF "skip" \in DOMAIN query THEN Number(query.skip) ELSE DefaultSkip

\* A document satisfies every filter of the query that is present (has a value).
Satisface(doc, query) ==
  /\ ("atc" \in DOMAIN query /\ query.atc # "") => doc.codigo_atc = query.atc
  /\ "rx" \in DOMAIN query => doc.requiere_receta = query.rx
  /\ "habilitado" \in DOMAIN query => doc.habilitado = (query.habilitado = "true")

SinTexto(query) == "texto" \in DOMAIN query => query.texto = ""

Elementos(seq) == { seq[i] : i \in DOMAIN seq }

\* C15: a Search without a text term whose pagination cuts nothing (offset 0,
\* and no limit or a limit not below the size of the catalog) returns exactly
\* the stored products that satisfy every filter present, each one once: all
\* of them when no filter is present, and for rx=false the products stored
\* as false, not the ones stored as null.
C15_SearchFilters ==
  \A query \in Queries :
    ( /\ SinTexto(query) /\ SkipDe(query) = 0
      /\ LimitDe(query) = 0 \/ LimitDe(query) >= Cardinality(DOMAIN productos) )
    => \A r \in GetProductos(productos, query) :
         /\ r.status = 200
         /\ Elementos(r.body)
              = { productos[id] : id \in { i \in DOMAIN productos : Satisface(productos[i], query) } }
         /\ Len(r.body) = Cardinality(Elementos(r.body))

\* A Search for rx=false returned the one product stored as false, while the
\* other stored product has requiere_receta null.
C15_Witness ==
  /\ res.op = "SEARCH" /\ res.status = 200
  /\ Len(res.body) = 1 /\ res.body[1].requiere_receta = "false"
  /\ \E id \in DOMAIN productos : productos[id].requiere_receta = Null
  /\ \E r \in GetProductos(productos, [rx |-> "false"]) : r.body = res.body

\* The documents at positions a..b of an order of ids.
Tramo(db, o, a, b) ==
  LET t == SubSeq(o, a, IF b < Len(o) THEN b ELSE Len(o))
  IN  [i \in DOMAIN t |-> db[t[i]]]

\* C16: for every query, Search returns at most `limit` products, and they
\* are the matches that follow the first `skip` matches in some order of the
\* matches.
C16_LimitBoundsResult ==
  \A query \in Queries :
    \A r \in GetProductos(productos, query) :
      /\ Len(r.body) <= LimitDe(query)
      /\ \E o \in Ordenes(Find(productos, Filtro(query))) :
           r.body = Tramo(productos, o, SkipDe(query) + 1, SkipDe(query) + LimitDe(query))

\* C17: no write is answered 409 because of an empty or absent barcode: every
\* Create, Replace or PartialUpdate that is answered 409 has a non-empty
\* barcode that is on a variant of another product, or is a Create under a
\* stored id.
C17_EmptyBarcodeNeverConflicts ==
  [][ /\ \A body \in PostVacios :
           LET r == PostProductos(productos, body, now, now)
           IN  (Respondido("POST", body._id, r) /\ r.status = 409)
               => \/ Colisiona(productos, body._id, body)
                  \/ body._id \in DOMAIN productos
      /\ \A id \in Ids, body \in UpdateVacios :
           LET put == PutProducto(productos, id, body, now, now)
               patch == PatchProducto(productos, id, body, now)
           IN  /\ (Respondido("PUT", id, put) /\ put.status = 409)
                    => Colisiona(productos, id, body)
               /\ (Respondido("PATCH", id, patch) /\ patch.status = 409)
                    => Colisiona(productos, id, body)
    ]_vars

\* C18: in every reachable state each record is stored under its own id; and a
\* Replace or PartialUpdate on path id X whose body carries another id leaves
\* the record of X, when there is one, under X with id X, and neither creates
\* nor changes a record under the body's id.
C18_IdImmutable ==
  /\ \A k \in DOMAIN productos : productos[k]._id = k
  /\ \A id \in Ids, body \in UpdateIds :
       ("_id" \in DOMAIN body /\ body._id # id)
       => \A r \in { PutProducto(productos, id, body, now, now),
                     PatchProducto(productos, id, body, now) } :
            /\ id \in DOMAIN productos => (id \in DOMAIN r.db /\ r.db[id]._id = id)
            /\ body._id \in DOMAIN r.db <=> body._id \in DOMAIN productos
            /\ body._id \in DOMAIN productos => r.db[body._id] = productos[body._id]

\* A Replace of the one stored product, with a body that carries the other
\* id, was refused: the product is stored under its id, and nothing under the
\* other id.
C18_Witness ==
  /\ res.op = "PUT" /\ res.status = 500
  /\ DOMAIN productos = {res.id}
  /\ productos[res.id]._id = res.id

\* Both dates of a record are readings of the clock during the step.
FechasDeLaEscritura(doc) ==
  /\ now <= doc.creado_en /\ doc.creado_en <= now'
  /\ now <= doc.actualizado_en /\ doc.actualizado_en <= now'

\* C19: every Create, and every Replace of an id that is not stored, stores
\* the record with creado_en and actualizado_en at the time of the write,
\* whatever dates the body carries; every later Replace or PartialUpdate that
\* is answered 200 leaves creado_en as it was and sets actualizado_en to the
\* time of the write.
C19_TimestampsSetByService ==
  [][ /\ \A body \in PostFechas :
           LET r == PostProductos(productos, body, now, now')
           IN  (Respondido("POST", body._id, r) /\ r.status = 201)
               => FechasDeLaEscritura(productos'[body._id])
      /\ \A id \in Ids, body \in UpdateFechas :
           LET put == PutProducto(productos, id, body, now, now')
               patch == PatchProducto(productos, id, body, now)
           IN  /\ (Respondido("PUT", id, put) /\ put.status = 200)
                    => IF id \in DOMAIN productos
                         THEN /\ productos'[id].creado_en = productos[id].creado_en
                              /\ now <= productos'[id].actualizado_en
                              /\ productos'[id].actualizado_en <= now'
                         ELSE FechasDeLaEscritura(productos'[id])
               /\ (Respondido("PATCH", id, patch) /\ patch.status = 200 /\ now' = now)
                    => /\ productos'[id].creado_en = productos[id].creado_en
                       /\ productos'[id].actualizado_en = now
    ]_vars

\* The statuses of a failure.
Fallos == {400, 404, 409, 500}

\* C20: every step that ends in a failure response (Conflict, NotFound,
\* ValidationError or InternalError) leaves the whole catalog, the dates of
\* every record included, exactly as it was.
C20_FailureLeavesCatalog ==
  [][ res'.status \in Fallos => productos' = productos ]_vars

\* A PartialUpdate of a stored product was answered 409 for its barcode after
\* the clock had advanced: the product keeps its variants and the
\* actualizado_en of its last write.
C20_Witness ==
  /\ res.op = "PATCH" /\ res.status = 409
  /\ res.id \in DOMAIN productos
  /\ productos[res.id].variantes = <<>>
  /\ productos[res.id].actualizado_en < now

====
